---- MODULE Spec2Model ----
(***************************************************************************)
(* PDF OCR & Analysis API (backend/main.py): the in-memory job store, the  *)
(* POST /process, GET /status and POST /chat handlers, the background task *)
(* process_pdf_task with the stages it calls (OCR adapter, LaTeX           *)
(* normalizer, page chunker with its rate gate), and the JSON repair       *)
(* parser as a function of its own.                                        *)
(*                                                                         *)
(* Scheduling.  Every handler and process_pdf_task are coroutines of one   *)
(* event loop.  process_pdf_task contains no await: once started it runs   *)
(* to its end (blocking calls and time.sleep included) before any other    *)
(* coroutine runs.  The task is still modelled statement by statement (pc) *)
(* so that its intermediate job records are states of the model; handlers  *)
(* are enabled only when the loop is free (LoopFree).                      *)
(*                                                                         *)
(* Time.  now is time.time() in whole units.  Time passes while the loop   *)
(* is idle (Tick), during a chunking LLM call and during time.sleep.       *)
(***************************************************************************)
EXTENDS Integers, Sequences, FiniteSets, Bags, TLC

VARIABLES
    jobs,        \* the job store: job id -> [status, result, error]
    pending,     \* background tasks added by POST /process and not yet started
    now,         \* time.time()
    pc,          \* position of the running process_pdf_task ("idle": none)
    cur,         \* arguments of the running task: [id, path]
    ocr,         \* ocr_results["pages"] of the running task
    pageIdx,     \* loop index (1-based) of the page loop in progress
    count,       \* gemini_request_count
    start,       \* gemini_request_start
    chunks,      \* chunks, the list the chunker builds
    issued,      \* history: [t, page] of each chunking LLM call of this pass
    latexLog,    \* history: the latest page of the LaTeX loop and its LLM call
    latexCalls,  \* history: [page, raises] of each LaTeX LLM call of this task
    gateLog,     \* history: what the rate gate did before the latest call
    callLog,     \* history: the latest chunking call and the chunks before it
    ocrCalls,    \* history: the provider requests the OCR adapter has made in this task
    ocrErr,      \* the exception process_pdf_with_ocr has raised ("": none)
    isFile,      \* pdf_file.is_file() as the adapter found it
    ocrFailed,   \* history: ids of the job records whose task failed in the OCR adapter
    resp,        \* the response GET /status returns in this step
    chatResp,    \* the response POST /chat returns in this step
    mistralKey,  \* MISTRAL_API_KEY is set
    geminiKey,   \* geminiApiKey is set
    docs,        \* the documents the OCR provider may return
    faulty,      \* the chunking replies, besides the nominal one, the LLM may give
    parser,      \* a run of extract_json_from_gemini_response: input, position, result
    budget,      \* disturbances (time advances, faulty replies) still allowed (bound)
    uploadsLeft  \* uploads still allowed (bound)

vars == <<jobs, pending, now, pc, cur, ocr, pageIdx, count, start, chunks,
          latexLog, latexCalls, issued, gateLog, callLog, ocrCalls, ocrErr, isFile, ocrFailed,
          resp, chatResp, mistralKey, geminiKey, docs, faulty, parser, budget,
          uploadsLeft>>

----------------------------------------------------------------------------
(* Bounds of the model *)

MaxUploads == 2
MaxDisturb == 1
GateDisturb == 1
LongPages == 16
MaxBody == 3

(* Program constants *)

MaxRequests == 15
Window == 60
HashModulus == 10000

----------------------------------------------------------------------------
(* Text: a string is a sequence of one-character strings *)

Whitespace == {" "}

RECURSIVE LStrip(_)
LStrip(s) == IF s # <<>> /\ Head(s) \in Whitespace THEN LStrip(Tail(s)) ELSE s

RECURSIVE RStrip(_)
RStrip(s) ==
    IF s # <<>> /\ s[Len(s)] \in Whitespace THEN RStrip(SubSeq(s, 1, Len(s) - 1)) ELSE s

\* str.strip()
Strip(s) == RStrip(LStrip(s))

\* the truth value of an optional string: None and "" are both false
Truthy(s) == s # <<>>

\* "$" in s or r"\(" in s or r"\[" in s
HasMathMarker(s) ==
    \/ \E i \in 1..Len(s) : s[i] = "$"
    \/ \E i \in 1..(Len(s) - 1) : s[i] = "\\" /\ s[i + 1] \in {"(", "["}

----------------------------------------------------------------------------
(* Job identifiers (process_pdf) *)

Filenames == {"a.pdf", "b.pdf"}

\* hash(file.filename): some fixed integers
Hash(f) == CASE f = "a.pdf" -> 41234
             [] f = "b.pdf" -> 5678

\* f"job_{int(time.time())}_{hash(file.filename) % 10000}"
JobId(t, f) == <<t, Hash(f) % HashModulus>>

Statuses == {"queued", "processing_ocr", "processing_chunks", "completed", "failed"}
Terminal == {"completed", "failed"}

\* an optional value: <<>> when the key is absent, <<v>> when it holds v
None == <<>>
Some(v) == <<v>>

\* {"status": "queued"}
NewJob == [status |-> "queued", result |-> None, error |-> None]

----------------------------------------------------------------------------
(* OCR results: pages with text/markdown, tables and images *)

Page(text, markdown, tables, images) ==
    [text |-> text, markdown |-> markdown, tables |-> tables, images |-> images,
     fixed_text |-> None]

Img(caption, base64) == [caption |-> caption, base64 |-> base64]

T0 == <<"t", "0">>
T1 == <<"t", "1">>

PgPlain == Page(<<"a">>, <<>>, <<>>, <<>>)
PgMath  == Page(<<>>, <<"$", "a">>, <<T0, T1>>,
                <<Img(Some("cap"), None), Img(None, Some("b64"))>>)
PgBlank == Page(<<" ">>, <<"a">>, <<T1>>, <<Img(None, None)>>)
PgEmpty == Page(<<>>, <<>>, <<>>, <<>>)

SmallDocs == { <<>>, <<PgPlain, PgEmpty>>, <<PgMath, PgBlank>> }

LongDocs == { [i \in 1..LongPages |-> PgPlain] }

\* page.get("text") or page.get("markdown")
RawContent(page) == IF Truthy(page.text) THEN page.text ELSE page.markdown

\* page.get("fixed_text") or page.get("text") or page.get("markdown")
ChunkContent(page) ==
    IF page.fixed_text # None /\ Truthy(page.fixed_text[1]) THEN page.fixed_text[1]
    ELSE RawContent(page)

\* a faulty variant: the test without strip()
NonBlankNoStrip(s) == Truthy(s)

\* page_content and page_content.strip()
NonBlank(s) == Truthy(s) /\ Truthy(Strip(s))

----------------------------------------------------------------------------
(* LLM replies *)

\* LaTeX correction: the call returns response.text, or raises
NominalLatex == [raises |-> FALSE, text |-> <<" ", "$", "b", " ">>]

LatexOutcomes ==
    { NominalLatex,
      [raises |-> TRUE, text |-> <<>>],
      [raises |-> FALSE, text |-> <<" ">>] }

\* an element of the "chunks" array: a JSON object, or something else
Obj(type) == [isObject |-> TRUE, type |-> type, content |-> <<"s">>, page |-> 0]
NonObj == [isObject |-> FALSE]

\* Chunking: the call raises, or returns a text that extract_json_from_gemini_response
\* fails on (top = "invalid"), or decodes to a JSON array, or to a JSON object
\* without or with the key 'chunks'
Reply(raises, top, hasChunks, elems) ==
    [raises |-> raises, top |-> top, hasChunks |-> hasChunks, elems |-> elems]

NominalReply == Reply(FALSE, "object", TRUE, <<Obj("paragraph")>>)

\* the faulty replies of the rate-gate scenario: the call raises, or its text
\* does not decode
GateReplies ==
    { Reply(TRUE, "none", FALSE, <<>>), Reply(FALSE, "invalid", FALSE, <<>>) }

FaultyReplies ==
    { Reply(TRUE, "none", FALSE, <<>>),
      Reply(FALSE, "invalid", FALSE, <<>>),
      Reply(FALSE, "array", FALSE, <<>>),
      Reply(FALSE, "object", FALSE, <<>>),
      Reply(FALSE, "object", TRUE, <<Obj("heading"), Obj("paragraph")>>),
      Reply(FALSE, "object", TRUE, <<Obj("heading"), NonObj, Obj("paragraph")>>) }

----------------------------------------------------------------------------
(* The repair parser (extract_json_from_gemini_response).  A text is a       *)
(* sequence of characters; the two fence markers are single symbols.  The    *)
(* JSON documents are the objects {"a":"..."} with one string member.        *)

\* the opening fence (three backquotes and the tag json) and the closing fence
FenceOpen == "<fence json>"
FenceClose == "<fence>"

Backslash == "\\"
Quote == "\""

\* the characters of a string body
BodyChars == {"x", "n", Backslash, Quote}

RECURSIVE SeqsUpTo(_, _)
SeqsUpTo(S, n) ==
    IF n = 0 THEN {<<>>}
    ELSE LET shorter == SeqsUpTo(S, n - 1)
         IN shorter \cup {Append(q, c) : q \in shorter, c \in S}

\* {"a":"
ObjectOpen == <<"{", Quote, "a", Quote, ":", Quote>>

\* the text of the object whose string body is written b
ObjectText(b) == ObjectOpen \o b \o <<Quote, "}">>

\* the object inside a json fence, or bare
Fenced(t) == <<FenceOpen, "\n">> \o t \o <<"\n", FenceClose>>

\* \s of the pattern
Space == {" ", "\n"}

RECURSIVE TrimLeft(_)
TrimLeft(t) == IF t # <<>> /\ Head(t) \in Space THEN TrimLeft(Tail(t)) ELSE t

RECURSIVE TrimRight(_)
TrimRight(t) ==
    IF t # <<>> /\ t[Len(t)] \in Space THEN TrimRight(SubSeq(t, 1, Len(t) - 1)) ELSE t

\* what lies between positions i and j of t is, up to surrounding space, {...}
Group(t, i, j) == TrimRight(TrimLeft(SubSeq(t, i + 1, j - 1)))

Braced(g) == Len(g) >= 2 /\ Head(g) = "{" /\ g[Len(g)] = "}"

\* re.search with re.DOTALL for the json fence around {...}: the leftmost opening
\* fence and, .* being greedy, the last closing fence that fit
FenceMatches(t) ==
    {m \in (1..Len(t)) \X (1..Len(t)) :
        /\ m[1] < m[2]
        /\ t[m[1]] = FenceOpen /\ t[m[2]] = FenceClose
        /\ Braced(Group(t, m[1], m[2]))}

\* json_str before the repair: match.group(1), or the whole text
Candidate(t) ==
    IF FenceMatches(t) = {} THEN t
    ELSE LET i == CHOOSE a \in {m[1] : m \in FenceMatches(t)} :
                     \A m \in FenceMatches(t) : a <= m[1]
             j == CHOOSE b \in {m[2] : m \in {n \in FenceMatches(t) : n[1] = i}} :
                     \A m \in {n \in FenceMatches(t) : n[1] = i} : b >= m[2]
         IN Group(t, i, j)

\* str.replace(old, new): every occurrence, left to right, not overlapping
RECURSIVE Replace(_, _, _)
Replace(t, old, new) ==
    IF Len(t) < Len(old) THEN t
    ELSE IF SubSeq(t, 1, Len(old)) = old
    THEN new \o Replace(SubSeq(t, Len(old) + 1, Len(t)), old, new)
    ELSE <<Head(t)>> \o Replace(Tail(t), old, new)

\* the first repair pass: every backslash is doubled, then every doubled
\* backslash before a quote is made single again
FirstPass(t) ==
    Replace(Replace(t, <<Backslash>>, <<Backslash, Backslash>>),
            <<Backslash, Backslash, Quote>>, <<Backslash, Quote>>)

\* the characters allowed after a backslash in a JSON string
EscapeChars == {Quote, Backslash, "/", "b", "f", "n", "r", "t", "u"}

\* the second repair pass (re.sub): every backslash followed by a character that
\* is none of EscapeChars is doubled, left to right
RECURSIVE SecondPass(_)
SecondPass(t) ==
    IF t = <<>> THEN t
    ELSE IF Len(t) >= 2 /\ t[1] = Backslash /\ t[2] \notin EscapeChars
    THEN <<Backslash, Backslash, t[2]>> \o SecondPass(SubSeq(t, 3, Len(t)))
    ELSE <<Head(t)>> \o SecondPass(Tail(t))

HexDigits == {"0", "1", "2", "3", "4", "5", "6", "7", "8", "9",
              "a", "b", "c", "d", "e", "f", "A", "B", "C", "D", "E", "F"}

\* the character a simple escape stands for
Unescape(c) ==
    CASE c = "n" -> "\n" [] c = "t" -> "\t" [] c = "r" -> "\r" [] c = "f" -> "\f"
      [] c = "b" -> "BS" [] OTHER -> c

ParseFailed == [ok |-> FALSE, value |-> <<>>, next |-> 0]

\* json's string scanner from position i of t, after the opening quote: the
\* decoded string and the position after the closing quote, or a failure
RECURSIVE DecodeString(_, _, _)
DecodeString(t, i, acc) ==
    IF i > Len(t) THEN ParseFailed
    ELSE IF t[i] = Quote THEN [ok |-> TRUE, value |-> acc, next |-> i + 1]
    ELSE IF t[i] \in {"\n", "\t", "\r", "\f"} THEN ParseFailed
    ELSE IF t[i] # Backslash THEN DecodeString(t, i + 1, Append(acc, t[i]))
    ELSE IF i + 1 > Len(t) \/ t[i + 1] \notin EscapeChars THEN ParseFailed
    ELSE IF t[i + 1] # "u" THEN DecodeString(t, i + 2, Append(acc, Unescape(t[i + 1])))
    ELSE IF i + 5 <= Len(t) /\ \A k \in 2..5 : t[i + k] \in HexDigits
    THEN DecodeString(t, i + 6, Append(acc, SubSeq(t, i + 1, i + 5)))
    ELSE ParseFailed

\* json.loads on the text of an object {"a":"..."}: the value of "a", or a
\* JSONDecodeError
JsonLoads(t) ==
    IF Len(t) < Len(ObjectOpen) \/ SubSeq(t, 1, Len(ObjectOpen)) # ObjectOpen
    THEN ParseFailed
    ELSE LET d == DecodeString(t, Len(ObjectOpen) + 1, <<>>)
         IN IF d.ok /\ SubSeq(t, d.next, Len(t)) = <<"}">> THEN d ELSE ParseFailed

----------------------------------------------------------------------------
(* The chunker's pure parts (process_ocr_results_for_embedding) *)

\* chunk["page"] = page_number on an element of the 'chunks' array
Stamp(e, p) == [type |-> e.type, page |-> p, content |-> e.content]

\* the fallback chunk of the except branch
Fallback(p, content) ==
    [type |-> "text", page |-> p, content |-> content,
     meaning |-> "Full page text without further chunking.",
     summary |-> "Fallback chunk."]

\* for chunk in llm_chunks_data.get("chunks", []): stamp and append, until an
\* element that is no object raises; [out: the chunks appended, raised]
RECURSIVE StampLoop(_, _, _)
StampLoop(elems, p, acc) ==
    IF elems = <<>> THEN [out |-> acc, raised |-> FALSE]
    ELSE IF ~Head(elems).isObject THEN [out |-> acc, raised |-> TRUE]
    ELSE StampLoop(Tail(elems), p, Append(acc, Stamp(Head(elems), p)))

\* the try block after the call has returned: what the page appends to chunks
AfterReply(r, p, content) ==
    IF r.top # "object" THEN <<Fallback(p, content)>>
    ELSE LET loop == StampLoop(IF r.hasChunks THEN r.elems ELSE <<>>, p, <<>>)
         IN IF loop.raised THEN Append(loop.out, Fallback(p, content)) ELSE loop.out

\* the whole try/except of one page: what the page appends to chunks
PageTextChunks(r, p, content) ==
    IF r.raises THEN <<Fallback(p, content)>> ELSE AfterReply(r, p, content)

\* a faulty variant: a call that raises is counted too
CountAfterAlways(r, n) == n + 1

\* gemini_request_count after the try/except
CountAfter(r, n) == IF r.raises THEN n ELSE n + 1

TableChunk(p, i, table) ==
    [type |-> "table", page |-> p, table_index |-> i, content |-> table,
     meaning |-> "Table data extracted from the page.",
     summary |-> "Table representation."]

ImageChunk(p, i, img) ==
    [type |-> "image", page |-> p, image_index |-> i,
     meaning |-> "Visual content on the page.", summary |-> "Extracted image.",
     caption |-> img.caption, image_data |-> img.base64]

\* a faulty variant: the image loop placed before the table loop
MediaChunksImagesFirst(page, p) ==
    [i \in 1..Len(page.images) |-> ImageChunk(p, i - 1, page.images[i])]
    \o [i \in 1..Len(page.tables) |-> TableChunk(p, i - 1, page.tables[i])]

\* the table loop and the image loop of one page (indices from 0)
MediaChunks(page, p) ==
    [i \in 1..Len(page.tables) |-> TableChunk(p, i - 1, page.tables[i])]
    \o [i \in 1..Len(page.images) |-> ImageChunk(p, i - 1, page.images[i])]

\* a faulty variant: the gate resets the counter without sleeping
GateSleepNone(elapsed) == 0

\* the rate gate: 60 - elapsed when elapsed < 60 (time.sleep), else no sleep
GateSleep(elapsed) == IF elapsed < Window THEN Window - elapsed ELSE 0

\* a faulty variant: the gate fires one call late
GateFiresLate(n) == n > MaxRequests

\* if gemini_request_count >= 15
GateFires(n) == n >= MaxRequests

----------------------------------------------------------------------------
(* State *)

NoTask == [id |-> <<0 - 1, 0 - 1>>, path |-> ""]
NoLatex == [page |-> 0, called |-> FALSE, raises |-> FALSE]
NoGate == [fired |-> FALSE, elapsed |-> 0, slept |-> 0, oldStart |-> 0, oldCount |-> 0]
NoCall == [page |-> 0, before |-> 0, countBefore |-> 0, raises |-> FALSE,
           reply |-> NominalReply, content |-> <<>>]
NoResp == [id |-> <<0 - 1, 0 - 1>>, known |-> FALSE, code |-> 0, status |-> "",
           result |-> None]

NoChat == [id |-> <<0 - 1, 0 - 1>>, code |-> 0, called |-> FALSE, context |-> <<>>]

\* no run of the repair parser
NoParse == [stage |-> "off", fenced |-> FALSE, body |-> <<>>, text |-> <<>>,
            cand |-> <<>>, result |-> <<>>]

\* how far time.time() may advance during one blocking call
TickSizes == {1, Window - 1, Window}

\* the locals of a task that is not running
LocalsCleared ==
    /\ cur = NoTask /\ ocr = <<>> /\ pageIdx = 0
    /\ count = 0 /\ start = 0 /\ chunks = <<>>
    /\ ocrCalls = <<>> /\ ocrErr = "" /\ isFile = TRUE
    /\ latexLog = NoLatex /\ latexCalls = <<>> /\ issued = <<>> /\ gateLog = NoGate /\ callLog = NoCall

InitCommon ==
    /\ jobs = << >>
    /\ pending = EmptyBag
    /\ now = 0
    /\ pc = "idle"
    /\ LocalsCleared
    /\ ocrFailed = {}
    /\ resp = NoResp
    /\ chatResp = NoChat
    /\ mistralKey \in BOOLEAN
    /\ geminiKey \in BOOLEAN

\* the service with short documents, several uploads and every LLM reply
Init ==
    /\ InitCommon
    /\ docs = SmallDocs
    /\ faulty = FaultyReplies
    /\ parser = NoParse
    /\ budget = MaxDisturb
    /\ uploadsLeft = MaxUploads

\* the service with one upload of a long document, for the rate gate
InitGate ==
    /\ InitCommon
    /\ docs = LongDocs
    /\ faulty = GateReplies
    /\ parser = NoParse
    /\ budget = GateDisturb
    /\ uploadsLeft = 1

\* the service with several uploads of one short document (a page with
\* mathematics and a whitespace-only page), for the termination of the tasks
InitLive ==
    /\ InitCommon
    /\ docs = { <<PgMath, PgBlank>> }
    /\ faulty = GateReplies
    /\ parser = NoParse
    /\ budget = MaxDisturb
    /\ uploadsLeft = MaxUploads

\* the repair parser alone, given the text of an object {"a":"..."} whose string
\* body is any sequence of at most MaxBody characters, inside a json fence or bare
InitParse ==
    /\ InitCommon
    /\ mistralKey /\ geminiKey
    /\ docs = SmallDocs
    /\ faulty = FaultyReplies
    /\ budget = 0
    /\ uploadsLeft = 0
    /\ \E b \in SeqsUpTo(BodyChars, MaxBody), f \in BOOLEAN :
          parser = [NoParse EXCEPT !.stage = "input", !.fenced = f, !.body = b,
                       !.text = IF f THEN Fenced(ObjectText(b)) ELSE ObjectText(b)]

\* a faulty variant: the task yields to the loop between storing the status completed
\* and storing the result
LoopFreeYielding == pc \in {"idle", "store"}

\* no coroutine holds the event loop: process_pdf_task has no await, so a
\* handler runs only before a task starts or after it has ended
LoopFree == pc = "idle"

ClearLocals ==
    /\ cur' = NoTask /\ ocr' = <<>> /\ pageIdx' = 0
    /\ count' = 0 /\ start' = 0 /\ chunks' = <<>>
    /\ ocrCalls' = <<>> /\ ocrErr' = "" /\ isFile' = TRUE
    /\ latexLog' = NoLatex /\ latexCalls' = <<>> /\ issued' = <<>> /\ gateLog' = NoGate /\ callLog' = NoCall

\* a response is a state of the model only in the step that returns it
Delivered == resp' = NoResp /\ chatResp' = NoChat

env == <<mistralKey, geminiKey, docs, faulty, parser, ocrFailed>>
settings == <<mistralKey, geminiKey, docs, faulty, parser>>
adapter == <<ocrCalls, ocrErr, isFile>>
chunker == <<pageIdx, count, start, chunks, latexLog, latexCalls, issued, gateLog,
            callLog>>

----------------------------------------------------------------------------
(* Handlers *)

\* time passes while the loop is idle
Tick ==
    /\ LoopFree
    /\ budget > 0
    /\ now' = now + 1
    /\ budget' = budget - 1
    /\ Delivered
    /\ UNCHANGED <<jobs, pending, pc, cur, ocr, chunker, adapter, env, uploadsLeft>>

\* POST /process: store {"status": "queued"} under the derived job id and add
\* the background task
Process(f) ==
    /\ LoopFree
    /\ uploadsLeft > 0
    /\ LET id == JobId(now, f)
       IN /\ jobs' = [j \in DOMAIN jobs \cup {id} |-> IF j = id THEN NewJob ELSE jobs[j]]
          /\ pending' = pending (+) SetToBag({[id |-> id, path |-> f]})
          /\ ocrFailed' = ocrFailed \ {id}
    /\ uploadsLeft' = uploadsLeft - 1
    /\ Delivered
    /\ UNCHANGED <<now, pc, cur, ocr, chunker, adapter, settings, budget>>

\* a faulty variant: the poll of a failed job carries no result
JobResponseNoError(id, job) ==
    [id |-> id, known |-> TRUE, code |-> 200, status |-> job.status,
     result |-> IF job.status = "completed" THEN job.result ELSE None]

\* the body of get_job_status for a job id in the store whose record is job;
\* jobs[job_id]['result'] of a completed record without result raises KeyError
JobResponse(id, job) ==
    IF job.status = "completed"
    THEN IF job.result = None
         THEN [id |-> id, known |-> TRUE, code |-> 500, status |-> job.status,
               result |-> None]
         ELSE [id |-> id, known |-> TRUE, code |-> 200, status |-> job.status,
               result |-> job.result]
    ELSE IF job.status = "failed"
    THEN [id |-> id, known |-> TRUE, code |-> 200, status |-> job.status,
          result |-> Some([error |-> IF job.error = None THEN "Unknown error"
                                     ELSE job.error[1]])]
    ELSE [id |-> id, known |-> TRUE, code |-> 200, status |-> job.status, result |-> None]

StatusResponse(id) == JobResponse(id, jobs[id])

\* HTTPException(status_code=404, detail="Job not found")
NotFound(id) == [id |-> id, known |-> FALSE, code |-> 404, status |-> "", result |-> None]

UnknownId == <<0, 0>>

\* GET /status/{job_id}
GetStatus(id) ==
    /\ LoopFree
    /\ resp' = IF id \in DOMAIN jobs THEN StatusResponse(id) ELSE NotFound(id)
    /\ chatResp' = NoChat
    /\ UNCHANGED <<jobs, pending, now, pc, cur, ocr, chunker, adapter, env, budget, uploadsLeft>>

\* a faulty variant: the chat is answered for every job in the store
ChatReadyAnyKnown(id) == id \in DOMAIN jobs

\* jobs[job_id].get("status") == "completed"
JobReady(job) == job.status = "completed"

\* the negation of: job_id not in jobs or jobs[job_id].get("status") != "completed"
ChatReady(id) == id \in DOMAIN jobs /\ JobReady(jobs[id])

\* HTTPException(status_code=404, detail="Processed PDF not found or not yet completed.")
ChatNotFound(id) == [id |-> id, code |-> 404, called |-> FALSE, context |-> <<>>]

\* the pages the system message is built from:
\* jobs[job_id].get("result", {}).get("ocr_results", {}).get("pages", [])
ChatContext(job) == IF job.result = None THEN <<>> ELSE job.result[1].ocr_results

\* a faulty variant: a chat that is answered takes the job out of the store
ChatForgetting(id) ==
    /\ LoopFree
    /\ IF ~ChatReady(id)
       THEN chatResp' = ChatNotFound(id) /\ UNCHANGED jobs
       ELSE /\ \E ok \in BOOLEAN :
                 chatResp' = [id |-> id,
                              code |-> IF mistralKey /\ ok THEN 200 ELSE 500,
                              called |-> mistralKey,
                              context |-> ChatContext(jobs[id])]
            /\ jobs' = [j \in DOMAIN jobs \ {id} |-> jobs[j]]
    /\ resp' = NoResp
    /\ UNCHANGED <<pending, now, pc, cur, ocr, chunker, adapter, env, budget, uploadsLeft>>

\* POST /chat: 404 unless the job is completed; else the chat provider is called
\* when the credential is set (ok: the call returns), and every exception is
\* answered with 500
Chat(id) ==
    /\ LoopFree
    /\ IF ~ChatReady(id)
       THEN chatResp' = ChatNotFound(id)
       ELSE \E ok \in BOOLEAN :
               chatResp' = [id |-> id,
                            code |-> IF mistralKey /\ ok THEN 200 ELSE 500,
                            called |-> mistralKey,
                            context |-> ChatContext(jobs[id])]
    /\ resp' = NoResp
    /\ UNCHANGED <<jobs, pending, now, pc, cur, ocr, chunker, adapter, env, budget, uploadsLeft>>

----------------------------------------------------------------------------
(* process_pdf_task *)

SetStatus(st) == jobs' = [jobs EXCEPT ![cur.id].status = st]

\* a faulty variant: the failure of one task is written to every job of the store
FailAll(msg) ==
    /\ jobs' = [j \in DOMAIN jobs |->
                  [jobs[j] EXCEPT !.status = "failed", !.error = Some(msg)]]
    /\ pc' = "idle"
    /\ ClearLocals

\* except Exception as e: status "failed", error str(e); the task ends
Fail(msg) ==
    /\ jobs' = [jobs EXCEPT ![cur.id].status = "failed", ![cur.id].error = Some(msg)]
    /\ pc' = "idle"
    /\ ClearLocals

\* a faulty variant: the background task is taken from the queue and never run
StartTaskDropped(t) ==
    /\ LoopFree
    /\ BagIn(t, pending)
    /\ pending' = pending (-) SetToBag({t})
    /\ Delivered
    /\ UNCHANGED <<jobs, pc, cur, now, ocr, chunker, adapter, env, budget, uploadsLeft>>

\* the background task starts: jobs[job_id]["status"] = "processing_ocr"
StartTask(t) ==
    /\ LoopFree
    /\ BagIn(t, pending)
    /\ pending' = pending (-) SetToBag({t})
    /\ cur' = t
    /\ jobs' = [jobs EXCEPT ![t.id].status = "processing_ocr"]
    /\ pc' = "ocr"
    /\ Delivered
    /\ UNCHANGED <<now, ocr, chunker, adapter, env, budget, uploadsLeft>>

\* the provider requests of process_pdf_with_ocr, in the order of the code
OcrRequests == <<"upload", "signed_url", "ocr">>

\* process_pdf_with_ocr: the credential check and the is_file check; an
\* exception leaves the adapter (pc "ocr_raised") for the task's except clause
OcrChecks ==
    /\ pc = "ocr"
    /\ IF ~mistralKey
       THEN /\ ocrErr' = "MISTRAL_API_KEY not found in environment variables"
            /\ pc' = "ocr_raised"
            /\ UNCHANGED isFile
       ELSE \E f \in BOOLEAN :
               /\ isFile' = f
               /\ ocrErr' = IF f THEN ocrErr ELSE "PDF file not found"
               /\ pc' = IF f THEN "ocr_upload" ELSE "ocr_raised"
    /\ Delivered
    /\ UNCHANGED <<jobs, pending, now, cur, ocr, chunker, ocrCalls, env, budget, uploadsLeft>>

\* a faulty variant: a request that raises is made again
OcrCallRetrying(name, at, next, raises) ==
    /\ pc = at
    /\ ocrCalls' = Append(ocrCalls, name)
    /\ IF raises /\ Len(ocrCalls) >= Len(OcrRequests)
       THEN ocrErr' = "provider error" /\ pc' = "ocr_raised"
       ELSE ocrErr' = ocrErr /\ pc' = IF raises THEN at ELSE next

\* one request to the OCR provider: it returns, or raises and the exception
\* leaves the adapter
OcrCall(name, at, next, raises) ==
    /\ pc = at
    /\ ocrCalls' = Append(ocrCalls, name)
    /\ IF raises
       THEN ocrErr' = "provider error" /\ pc' = "ocr_raised"
       ELSE ocrErr' = ocrErr /\ pc' = next

\* client.files.upload
OcrUpload ==
    /\ \E raises \in BOOLEAN : OcrCall("upload", "ocr_upload", "ocr_url", raises)
    /\ Delivered
    /\ UNCHANGED <<jobs, pending, now, cur, ocr, chunker, isFile, env, budget, uploadsLeft>>

\* client.files.get_signed_url
OcrSignedUrl ==
    /\ \E raises \in BOOLEAN : OcrCall("signed_url", "ocr_url", "ocr_process", raises)
    /\ Delivered
    /\ UNCHANGED <<jobs, pending, now, cur, ocr, chunker, isFile, env, budget, uploadsLeft>>

\* client.ocr.process; process_pdf_with_ocr returns the provider's result
OcrProcess ==
    /\ \E raises \in BOOLEAN :
          /\ OcrCall("ocr", "ocr_process", "latex_init", raises)
          /\ IF raises THEN UNCHANGED ocr ELSE \E d \in docs : ocr' = d
    /\ Delivered
    /\ UNCHANGED <<jobs, pending, now, cur, chunker, isFile, env, budget, uploadsLeft>>

\* process_pdf_with_ocr has raised: the except clause of the task
OcrFails ==
    /\ pc = "ocr_raised"
    /\ Fail(ocrErr)
    /\ ocrFailed' = ocrFailed \cup {cur.id}
    /\ Delivered
    /\ UNCHANGED <<pending, now, settings, budget, uploadsLeft>>

\* fix_latex_with_gemini, its credential check
LatexInit ==
    /\ pc = "latex_init"
    /\ IF ~geminiKey
       THEN Fail("GEMINI_API_KEY not found in environment variables")
       ELSE /\ pc' = "latex"
            /\ pageIdx' = 1
            /\ UNCHANGED <<jobs, cur, ocr, count, start, chunks, adapter, latexLog, latexCalls, issued, gateLog,
                           callLog>>
    /\ Delivered
    /\ UNCHANGED <<pending, now, env, budget, uploadsLeft>>

\* a faulty variant: a failed LaTeX call leaves an empty corrected text
FixedTextDropOnRaise(c, o) ==
    IF ~NonBlank(c) THEN None
    ELSE IF HasMathMarker(c) THEN (IF o.raises THEN Some(<<>>) ELSE Some(Strip(o.text)))
    ELSE Some(c)

\* page["fixed_text"] after the loop body for a page with content c
FixedText(c, o) ==
    IF ~NonBlank(c) THEN None
    ELSE IF HasMathMarker(c) THEN (IF o.raises THEN Some(c) ELSE Some(Strip(o.text)))
    ELSE Some(c)

\* fix_latex_with_gemini, one page of its loop; the LLM is called only for a
\* page with content and a math marker
LatexPage ==
    /\ pc = "latex"
    /\ pageIdx <= Len(ocr)
    /\ LET c == RawContent(ocr[pageIdx])
           called == NonBlank(c) /\ HasMathMarker(c)
       IN \E o \in (IF called THEN LatexOutcomes ELSE {NominalLatex}) :
            /\ o # NominalLatex => budget > 0
            /\ budget' = IF o # NominalLatex THEN budget - 1 ELSE budget
            /\ ocr' = [ocr EXCEPT ![pageIdx].fixed_text = FixedText(c, o)]
            /\ latexLog' = [page |-> pageIdx, called |-> called,
                            raises |-> called /\ o.raises]
            /\ latexCalls' = IF called
                             THEN Append(latexCalls, [page |-> pageIdx, raises |-> o.raises])
                             ELSE latexCalls
    /\ pageIdx' = pageIdx + 1
    /\ Delivered
    /\ UNCHANGED <<jobs, pending, now, pc, cur, count, start, chunks, adapter, issued,
                   gateLog, callLog, env, uploadsLeft>>

\* fix_latex_with_gemini returns: jobs[job_id]["status"] = "processing_chunks"
LatexDone ==
    /\ pc = "latex"
    /\ pageIdx > Len(ocr)
    /\ SetStatus("processing_chunks")
    /\ pc' = "chunk_init"
    /\ Delivered
    /\ UNCHANGED <<pending, now, cur, ocr, chunker, adapter, env, budget,
                   uploadsLeft>>

\* process_ocr_results_for_embedding: credential check, counter and window start
ChunkInit ==
    /\ pc = "chunk_init"
    /\ IF ~geminiKey
       THEN Fail("GEMINI_API_KEY not found in environment variables")
       ELSE /\ count' = 0
            /\ start' = now
            /\ chunks' = <<>>
            /\ pageIdx' = 1
            /\ pc' = IF Len(ocr) >= 1 THEN "gate" ELSE "finish"
            /\ UNCHANGED <<jobs, cur, ocr, adapter, latexLog, latexCalls, issued, gateLog, callLog>>
    /\ Delivered
    /\ UNCHANGED <<pending, now, env, budget, uploadsLeft>>

\* top of the page loop: the blank-text test and the rate gate
Gate ==
    /\ pc = "gate"
    /\ LET c == ChunkContent(ocr[pageIdx])
           elapsed == now - start
       IN IF ~NonBlank(c)
          THEN /\ pc' = "media"
               /\ UNCHANGED <<now, count, start, gateLog>>
          ELSE IF GateFires(count)
          THEN /\ now' = now + GateSleep(elapsed)
               /\ count' = 0
               /\ start' = now'
               /\ gateLog' = [fired |-> TRUE, elapsed |-> elapsed,
                              slept |-> GateSleep(elapsed),
                              oldStart |-> start, oldCount |-> count]
               /\ pc' = "call"
          ELSE /\ gateLog' = NoGate
               /\ pc' = "call"
               /\ UNCHANGED <<now, count, start>>
    /\ Delivered
    /\ UNCHANGED <<jobs, pending, cur, ocr, pageIdx, chunks, adapter, latexLog, latexCalls, issued, callLog, env,
                   budget, uploadsLeft>>

\* the LLM call of one page and the rest of its try/except; the call takes d
CallWith(r, d) ==
    /\ pc = "call"
    /\ LET c == ChunkContent(ocr[pageIdx])
       IN /\ chunks' = chunks \o PageTextChunks(r, pageIdx, c)
          /\ callLog' = [page |-> pageIdx, before |-> Len(chunks), countBefore |-> count,
                         raises |-> r.raises, reply |-> r, content |-> c]
    /\ count' = CountAfter(r, count)
    /\ issued' = Append(issued, [t |-> now, page |-> pageIdx])
    /\ now' = now + d
    /\ pc' = "media"
    /\ Delivered
    /\ UNCHANGED <<jobs, pending, cur, ocr, pageIdx, start, adapter, latexLog, latexCalls, gateLog, env,
                   uploadsLeft>>

\* what a reply and a duration take from the budget of disturbances
Cost(r, d) == (IF r # NominalReply THEN 1 ELSE 0) + (IF d # 0 THEN 1 ELSE 0)

\* a faulty variant: an LLM call that raises is not caught: the task fails
CallPropagating ==
    \E r \in {NominalReply} \cup faulty, d \in {0} \cup TickSizes :
        /\ Cost(r, d) <= budget
        /\ budget' = budget - Cost(r, d)
        /\ IF r.raises
           THEN /\ pc = "call"
                /\ Fail("LLM call failed")
                /\ now' = now + d
                /\ Delivered
                /\ UNCHANGED <<pending, env, uploadsLeft>>
           ELSE CallWith(r, d)

Call ==
    \E r \in {NominalReply} \cup faulty, d \in {0} \cup TickSizes :
        /\ Cost(r, d) <= budget
        /\ budget' = budget - Cost(r, d)
        /\ CallWith(r, d)

\* the table loop and the image loop of the page, and the next iteration
Media ==
    /\ pc = "media"
    /\ chunks' = chunks \o MediaChunks(ocr[pageIdx], pageIdx)
    /\ pageIdx' = pageIdx + 1
    /\ pc' = IF pageIdx < Len(ocr) THEN "gate" ELSE "finish"
    /\ Delivered
    /\ UNCHANGED <<jobs, pending, now, cur, ocr, count, start, adapter, latexLog, latexCalls, issued, gateLog,
                   callLog,
                   env, budget, uploadsLeft>>

\* a faulty variant: the page view numbered from 0, as enumerate() counts
FixedOcrFromZero(pages) ==
    [i \in 1..Len(pages) |->
        [page |-> i - 1,
         fixed_text |-> IF pages[i].fixed_text = None THEN <<>> ELSE pages[i].fixed_text[1]]]

\* fixed_ocr: the page view of the corrected text
FixedOcr(pages) ==
    [i \in 1..Len(pages) |->
        [page |-> i,
         fixed_text |-> IF pages[i].fixed_text = None THEN <<>> ELSE pages[i].fixed_text[1]]]

\* jobs[job_id]["status"] = "completed"
Finish ==
    /\ pc = "finish"
    /\ SetStatus("completed")
    /\ pc' = "store"
    /\ Delivered
    /\ UNCHANGED <<pending, now, cur, ocr, chunker, adapter, env, budget,
                   uploadsLeft>>

\* jobs[job_id]["result"] = {...}; the task ends
Store ==
    /\ pc = "store"
    /\ jobs' = [jobs EXCEPT ![cur.id].result =
                    Some([ocr_results |-> FixedOcr(ocr), chunks |-> chunks,
                          total_chunks |-> Len(chunks)])]
    /\ pc' = "idle"
    /\ ClearLocals
    /\ Delivered
    /\ UNCHANGED <<pending, now, env, budget, uploadsLeft>>

----------------------------------------------------------------------------
(* Specifications *)

TaskStep ==
    \/ OcrChecks \/ OcrUpload \/ OcrSignedUrl \/ OcrProcess \/ OcrFails
    \/ LatexInit \/ LatexPage \/ LatexDone
    \/ ChunkInit \/ Gate \/ Call \/ Media \/ Finish \/ Store

Next ==
    \/ Tick
    \/ \E f \in Filenames : Process(f)
    \/ \E id \in DOMAIN jobs \cup {UnknownId} : GetStatus(id)
    \/ \E id \in DOMAIN jobs \cup {UnknownId} : Chat(id)
    \/ \E t \in BagToSet(pending) : StartTask(t)
    \/ TaskStep

Spec == Init /\ [][Next]_vars

SpecGate == InitGate /\ [][Next]_vars

\* the service in both scenarios, with the scheduling the event loop gives:
\* a background task that was added is started (Starlette awaits it after the
\* response is sent), and a running task takes its next step, every provider
\* call returning or raising
SpecLive ==
    /\ InitLive \/ InitGate
    /\ [][Next]_vars
    /\ WF_vars(\E t \in BagToSet(pending) : StartTask(t))
    /\ WF_vars(TaskStep)

\* the repair parser reads and writes nothing but its argument and its result
ParseFrame ==
    UNCHANGED <<jobs, pending, now, pc, cur, ocr, chunker, adapter, mistralKey,
                geminiKey, docs, faulty, ocrFailed, resp, chatResp, budget, uploadsLeft>>

\* extract_json_from_gemini_response: the search for the fence
ParseExtract ==
    /\ ParseFrame
    /\ parser.stage = "input"
    /\ parser' = [parser EXCEPT !.stage = "first", !.cand = Candidate(parser.text)]

\* the first repair pass and json.loads
ParseFirst ==
    /\ ParseFrame
    /\ parser.stage = "first"
    /\ LET r == JsonLoads(FirstPass(parser.cand))
       IN parser' = IF r.ok
                    THEN [parser EXCEPT !.stage = "returned", !.result = r.value]
                    ELSE [parser EXCEPT !.stage = "second"]

\* after a JSONDecodeError: the second repair pass on the candidate and
\* json.loads; a second failure raises ValueError
ParseSecond ==
    /\ ParseFrame
    /\ parser.stage = "second"
    /\ LET r == JsonLoads(SecondPass(parser.cand))
       IN parser' = IF r.ok
                    THEN [parser EXCEPT !.stage = "returned", !.result = r.value]
                    ELSE [parser EXCEPT !.stage = "raised"]

NextParse == ParseExtract \/ ParseFirst \/ ParseSecond

SpecParse == InitParse /\ [][NextParse]_vars

----------------------------------------------------------------------------
(* Claims about the job store and the orchestrator *)

\* a step of the running background task (handlers run only when pc = "idle")
IsTaskStep == pc # "idle" \/ pc' # "idle"

Allowed(a, b) ==
    \/ a = b
    \/ <<a, b>> \in { <<"queued", "processing_ocr">>,
                      <<"processing_ocr", "processing_chunks">>,
                      <<"processing_chunks", "completed">> }
    \/ a \notin Terminal /\ b = "failed"

\* C1: in every step of process_pdf_task the status of a job changes only along
\* queued -> processing_ocr -> processing_chunks -> completed or from a
\* non-terminal status to failed, and only the five statuses are ever stored.
C1_StatusTransitions ==
    [][IsTaskStep =>
          \A id \in DOMAIN jobs :
              /\ Allowed(jobs[id].status, jobs'[id].status)
              /\ jobs'[id].status \in Statuses]_vars

\* a response of GET /status for a job in the store is well formed
WellFormed(r) ==
    /\ r.code = 200
    /\ r.status \in Statuses
    /\ r.status = "completed" =>
          /\ r.result # None
          /\ r.result[1].total_chunks = Len(r.result[1].chunks)
    /\ r.status = "failed" => r.result # None /\ r.result[1].error # ""
    /\ r.status \notin Terminal => r.result = None

\* C2: GET /status/{job_id} for a job id in the store returns a well-formed
\* response and never propagates an exception, whenever the event loop lets
\* the poll run between the steps of the background tasks.
C2_StatusWellFormed == resp.known => WellFormed(resp)

\* C2 witness: a poll has returned the result of a completed job while another
\* background task is still waiting to start.
C2_Witness ==
    /\ resp.known /\ resp.status = "completed" /\ resp.result # None
    /\ pending # EmptyBag

\* C3: once the record stored under a job id has status completed or failed,
\* no upload and no task step changes its status again.
C3_TerminalAbsorbing ==
    [][\A id \in DOMAIN jobs :
          jobs[id].status \in Terminal => jobs'[id].status = jobs[id].status]_vars

----------------------------------------------------------------------------
(* Claims about the chunking pass *)

\* the chunker has just run the try/except of page pageIdx
AfterCall == pc = "media" /\ callLog.page = pageIdx

\* C4: within one chunking pass, at most 15 chunking LLM calls are issued in
\* any time interval of length 60 (here: shorter than 60), whatever the timing
\* and whichever calls succeed or fail.
C4_RollingWindow ==
    \A i \in 1..Len(issued) :
        Cardinality({j \in i..Len(issued) : issued[j].t - issued[i].t < Window})
            <= MaxRequests

\* something failed between building the prompt and appending the LLM chunks
CallFailed(r) ==
    \/ r.raises
    \/ r.top # "object"
    \/ r.hasChunks /\ \E i \in 1..Len(r.elems) : ~r.elems[i].isObject

\* C5: when anything fails for a page between building the prompt and appending
\* its LLM chunks, the page adds to the chunk list exactly the fallback chunk
\* (type 'text', content the page text) and no LLM chunk of the page remains.
C5_ExactlyOneFallback ==
    (AfterCall /\ CallFailed(callLog.reply)) =>
        SubSeq(chunks, callLog.before + 1, Len(chunks))
            = <<Fallback(pageIdx, callLog.content)>>

\* the running task ends in this step, after its OCR adapter call succeeded
EndsAfterOcr ==
    /\ pc \notin {"idle", "ocr", "ocr_upload", "ocr_url", "ocr_process", "ocr_raised"}
    /\ pc' = "idle"

\* C6 as stated: if the OCR adapter succeeds, the job ends in completed for
\* every outcome of the LLM calls and every state of the LLM credential.
C6_NoStageFailure ==
    [][EndsAfterOcr => jobs'[cur.id].status = "completed"]_vars

\* the degraded output of a page: the fallback chunk ends what a failed try
\* block adds, and the corrected text of a failed LaTeX call is the page text
Degraded ==
    /\ (AfterCall /\ CallFailed(callLog.reply)) =>
          chunks # <<>> /\ chunks[Len(chunks)] = Fallback(pageIdx, callLog.content)
    /\ (pc = "latex" /\ latexLog.raises) =>
          ocr[latexLog.page].fixed_text = Some(RawContent(ocr[latexLog.page]))

\* C6 amended: if the OCR adapter succeeds and the LLM credential is set, the
\* task ends with status completed and a stored result for every outcome of
\* the LLM calls and of the JSON repair on every page, with degraded output
\* (fallback chunk or original text) for the affected pages; with the LLM
\* credential missing the task ends with status failed.
C6_CompletedWithCredential ==
    /\ []Degraded
    /\ [][EndsAfterOcr =>
            IF geminiKey
            THEN /\ jobs'[cur.id].status = "completed"
                 /\ jobs'[cur.id].result # None
            ELSE jobs'[cur.id].status = "failed"]_vars

\* C6 witness: a job is completed with degraded output, a fallback chunk.
C6_Witness ==
    \E id \in DOMAIN jobs :
        /\ jobs[id].status = "completed"
        /\ jobs[id].result # None
        /\ \E i \in 1..Len(jobs[id].result[1].chunks) :
              jobs[id].result[1].chunks[i].type = "text"

\* C7: a job whose OCR adapter call failed never has status processing_chunks
\* afterwards; once no task for it is left, its status is failed and its error
\* string is non-empty.
C7_OcrFailureFinal ==
    \A id \in ocrFailed :
        /\ jobs[id].status # "processing_chunks"
        /\ (pc = "idle" /\ \A t \in BagToSet(pending) : t.id # id) =>
              /\ jobs[id].status = "failed"
              /\ jobs[id].error # None
              /\ jobs[id].error[1] # ""

Last(seq) == seq[Len(seq)]

\* the gate found 15 counted calls and fewer than 60 units elapsed
GateHeld == gateLog.fired /\ gateLog.oldCount = MaxRequests /\ gateLog.elapsed < Window

\* C8: if 15 chunking calls have succeeded in the current window and fewer than
\* 60 units have elapsed since the window start, the next page's call is not
\* issued before window start + 60; it is issued with the counter reset to 0 and
\* the window start set to the current time, so the counter is 1 once it succeeds.
C8_GateDelays ==
    (AfterCall /\ GateHeld) =>
        /\ Last(issued).t >= gateLog.oldStart + Window
        /\ callLog.countBefore = 0
        /\ start = Last(issued).t
        /\ ~callLog.raises => count = 1

\* C8 witness: the 16th call was held by the gate for a positive time shorter
\* than the window, and has succeeded.
C8_Witness ==
    /\ AfterCall /\ GateHeld
    /\ gateLog.elapsed > 0
    /\ Len(issued) = MaxRequests + 1
    /\ ~callLog.raises /\ count = 1

\* a chunk made from a table (2), from an image (3), or a text/LLM chunk (1)
Rank(c) == IF c.type = "table" THEN 2 ELSE IF c.type = "image" THEN 3 ELSE 1

\* positions before i that hold a chunk of the same page and type as cs[i]
SameBefore(cs, i) ==
    {k \in 1..(i - 1) : cs[k].page = cs[i].page /\ cs[k].type = cs[i].type}

\* the order of a chunk sequence over n pages
ChunkOrder(cs, n) ==
    /\ \A i \in 1..Len(cs) : cs[i].page \in 1..n
    /\ \A i, j \in 1..Len(cs) :
          i < j => /\ cs[i].page <= cs[j].page
                   /\ cs[i].page = cs[j].page => Rank(cs[i]) <= Rank(cs[j])
    /\ \A i \in 1..Len(cs) :
          /\ cs[i].type = "table" => cs[i].table_index = Cardinality(SameBefore(cs, i))
          /\ cs[i].type = "image" => cs[i].image_index = Cardinality(SameBefore(cs, i))

\* table and image chunks carry the page's tables and images in their order
FollowsPages(cs, pages) ==
    \A i \in 1..Len(cs) :
        /\ cs[i].type = "table" =>
              cs[i].content = pages[cs[i].page].tables[cs[i].table_index + 1]
        /\ cs[i].type = "image" =>
              LET img == pages[cs[i].page].images[cs[i].image_index + 1]
              IN cs[i].caption = img.caption /\ cs[i].image_data = img.base64

InChunker == pc \in {"gate", "call", "media", "finish", "store"}

\* C9: in the chunk sequence of a job the page values are non-decreasing and
\* within 1..number of pages; within a page the text/LLM chunks come before the
\* table chunks, which come before the image chunks; table_index and
\* image_index ascend from 0 in the order of the page's tables and images.
C9_ChunkOrder ==
    /\ InChunker => ChunkOrder(chunks, Len(ocr)) /\ FollowsPages(chunks, ocr)
    /\ \A id \in DOMAIN jobs :
          jobs[id].result # None =>
              ChunkOrder(jobs[id].result[1].chunks, Len(jobs[id].result[1].ocr_results))

\* C9 witness: the chunker returns a sequence over two pages in which a page
\* has an LLM chunk, two tables and two images.
C9_Witness ==
    /\ pc = "finish"
    /\ \E i, j, k \in 1..Len(chunks) :
          /\ chunks[i].page = 1 /\ Rank(chunks[i]) = 1
          /\ chunks[j].page = 1 /\ chunks[j].type = "image" /\ chunks[j].image_index = 1
          /\ chunks[k].page = 2 /\ chunks[k].type = "table"

\* the text is empty or whitespace-only
IsBlankText(s) == \A i \in 1..Len(s) : s[i] \in Whitespace

ChunksOf(p, ranks) == {i \in 1..Len(chunks) : chunks[i].page = p /\ Rank(chunks[i]) \in ranks}

\* C10: for a page whose text is empty or whitespace-only the chunker issues no
\* LLM call and appends no LLM or fallback chunk, and appends one chunk for
\* every table and one for every image of the page.
C10_BlankPage ==
    pc = "finish" =>
        \A p \in 1..Len(ocr) :
            IsBlankText(RawContent(ocr[p])) =>
                /\ \A i \in 1..Len(issued) : issued[i].page # p
                /\ ChunksOf(p, {1}) = {}
                /\ Cardinality(ChunksOf(p, {2})) = Len(ocr[p].tables)
                /\ Cardinality(ChunksOf(p, {3})) = Len(ocr[p].images)

\* C10 witness: the chunker has finished a document with a whitespace-only page
\* that has a table and an image.
C10_Witness ==
    /\ pc = "finish"
    /\ \E p \in 1..Len(ocr) :
          /\ RawContent(ocr[p]) # <<>> /\ IsBlankText(RawContent(ocr[p]))
          /\ ChunksOf(p, {2}) # {} /\ ChunksOf(p, {3}) # {}

----------------------------------------------------------------------------
(* Claims about the responses of the handlers *)

\* a record with status st and neither result nor error
Bare(st) == [NewJob EXCEPT !.status = st]

\* C11: the response of GET /status/{job_id} is 404 for a job id not in the
\* store; for a stored job it carries the stored result when the status is
\* completed, the error string when it is failed, and no result when the status
\* is queued, processing_ocr or processing_chunks.
C11_ResultPresence ==
    /\ resp.code # 0 =>
          IF resp.id \notin DOMAIN jobs
          THEN resp.code = 404 /\ resp.result = None
          ELSE LET job == jobs[resp.id]
               IN /\ resp.code = 200
                  /\ resp.status = job.status
                  /\ job.status = "completed" =>
                        job.result # None /\ resp.result = job.result
                  /\ job.status = "failed" =>
                        job.error # None /\ resp.result = Some([error |-> job.error[1]])
                  /\ job.status \notin Terminal => resp.result = None
    /\ \A st \in Statuses \ Terminal : JobResponse(UnknownId, Bare(st)).result = None

\* C11 witness: a poll has returned the error string of a failed job.
C11_Witness ==
    /\ resp.code = 200 /\ resp.status = "failed"
    /\ resp.result = Some([error |-> "provider error"])

\* a stored result: the page view is numbered 1..N in order and total_chunks
\* is the length of the chunk sequence
ResultShape(res) ==
    /\ \A i \in 1..Len(res.ocr_results) : res.ocr_results[i].page = i
    /\ res.total_chunks = Len(res.chunks)

CompletedHasResult(id) ==
    jobs[id].status = "completed" =>
        jobs[id].result # None /\ ResultShape(jobs[id].result[1])

\* C12 as stated: in every reachable state a job with status completed has a
\* stored result with the chunk sequence, the page view and total_chunks.
C12_CompletedHasResult == \A id \in DOMAIN jobs : CompletedHasResult(id)

\* C12 amended: in every state in which no background task is between its
\* write of the status completed and its write of the result (every state a
\* request handler can run in), a job with status completed has a stored
\* result; the result a task stores holds the chunk sequence the chunker
\* returned, a page view with one entry per OCR page numbered 1..N in order,
\* and total_chunks equal to the length of that chunk sequence.
C12_CompletedHasResultAtRest ==
    /\ [](pc # "store" => \A id \in DOMAIN jobs : CompletedHasResult(id))
    /\ [][pc = "store" =>
            /\ jobs'[cur.id].result # None
            /\ jobs'[cur.id].result[1].chunks = chunks
            /\ Len(jobs'[cur.id].result[1].ocr_results) = Len(ocr)
            /\ ResultShape(jobs'[cur.id].result[1])]_vars

\* C12 witness: a task has ended and its job is completed with a result over
\* two pages and five or more chunks.
C12_Witness ==
    /\ pc = "idle"
    /\ \E id \in DOMAIN jobs :
          /\ jobs[id].status = "completed" /\ jobs[id].result # None
          /\ Len(jobs[id].result[1].ocr_results) = 2
          /\ jobs[id].result[1].total_chunks >= 5

\* C13: POST /chat answers with the same 404 error whenever the job id is
\* unknown or the job's status is not completed, and then makes no call to the
\* chat provider; the chat provider is called only for a completed job.
C13_ChatNotReady ==
    /\ chatResp.code # 0 =>
          LET ready == chatResp.id \in DOMAIN jobs
                         /\ jobs[chatResp.id].status = "completed"
          IN /\ ~ready => chatResp = ChatNotFound(chatResp.id)
             /\ chatResp.called => ready
             /\ ready => chatResp.code \in {200, 500}
    /\ \A st \in Statuses \ {"completed"} : ~JobReady(Bare(st))

\* C13 witness: a chat on a failed job was answered with 404 and no provider call.
C13_Witness ==
    /\ chatResp.code = 404 /\ ~chatResp.called
    /\ chatResp.id \in DOMAIN jobs
    /\ jobs[chatResp.id].status = "failed"

----------------------------------------------------------------------------
(* Frame of the background task *)

\* C14: every step of the background task of job id A, the step in which it
\* fails included, leaves the record of every other job id B of the store
\* (status, result and error) unchanged, and adds or removes no id.
C14_TaskFrame ==
    [][IsTaskStep =>
          LET A == IF pc = "idle" THEN cur'.id ELSE cur.id
          IN /\ DOMAIN jobs' = DOMAIN jobs
             /\ \A B \in DOMAIN jobs \ {A} : jobs'[B] = jobs[B]]_vars

\* C14 witness: the task of one job has failed while the store holds another
\* job that is completed with its result.
C14_Witness ==
    /\ pc = "idle"
    /\ \E A, B \in DOMAIN jobs :
          /\ A # B
          /\ jobs[A].status = "failed" /\ A \in ocrFailed
          /\ jobs[B].status = "completed" /\ jobs[B].result # None

----------------------------------------------------------------------------
(* Claims about the LaTeX normalizer *)

\* fix_latex_with_gemini has returned
AfterLatex == pc \in {"chunk_init", "gate", "call", "media", "finish", "store"}

\* the text holds one of the markers $, \( or \[
Marked(s) ==
    \E i \in 1..Len(s) :
        \/ s[i] = "$"
        \/ i < Len(s) /\ s[i] = "\\" /\ (s[i + 1] = "(" \/ s[i + 1] = "[")

LatexCallsOf(p) == {i \in 1..Len(latexCalls) : latexCalls[i].page = p}

\* the corrected text of page p is the original text unless the page is marked
\* and its call succeeded; the page is called exactly when it is marked, once
Normalized(p) ==
    LET c == RawContent(ocr[p])
    IN /\ \/ ocr[p].fixed_text = Some(c)
          \/ Marked(c) /\ \E i \in LatexCallsOf(p) : ~latexCalls[i].raises
       /\ LatexCallsOf(p) # {} <=> Marked(c)
       /\ Cardinality(LatexCallsOf(p)) <= 1

\* C15 as stated: after the LaTeX normalizer has run, every page with non-empty
\* text has as corrected text its original text unless it holds a marker and
\* its LLM call succeeded; the LLM is called exactly for the pages with
\* non-empty text holding a marker, at most once per page.
C15_Normalizer ==
    AfterLatex => \A p \in 1..Len(ocr) : RawContent(ocr[p]) # <<>> => Normalized(p)

\* C15 amended: the same for every page whose text is not empty after
\* trimming; a page whose text is empty or whitespace-only gets no corrected
\* text and no LLM call.
C15_NormalizerNonBlank ==
    AfterLatex =>
        \A p \in 1..Len(ocr) :
            IF IsBlankText(RawContent(ocr[p]))
            THEN ocr[p].fixed_text = None /\ LatexCallsOf(p) = {}
            ELSE Normalized(p)

\* C15 witness: the normalizer has returned a document with a marked page whose
\* call raised, which keeps its original text, and a whitespace-only page.
C15_Witness ==
    /\ pc = "chunk_init"
    /\ \E p, q \in 1..Len(ocr) :
          /\ \E i \in LatexCallsOf(p) : latexCalls[i].raises
          /\ ocr[p].fixed_text = Some(RawContent(ocr[p]))
          /\ RawContent(ocr[q]) # <<>> /\ IsBlankText(RawContent(ocr[q]))

----------------------------------------------------------------------------
(* Claims about the OCR adapter *)

IsPrefix(a, b) == Len(a) <= Len(b) /\ a = SubSeq(b, 1, Len(a))

\* the adapter has raised and the exception is on its way to the task
OcrRaised == pc = "ocr_raised"

\* C16: the OCR adapter raises a configuration error when no credential is
\* available and a not-found error when the path is not a file, both before any
\* provider request; otherwise it makes the upload, signed-URL and OCR requests
\* at most once each, in this order, and after a provider error it makes no
\* further request: the error ends the task.
C16_OcrAdapter ==
    /\ [](/\ IsPrefix(ocrCalls, <<"upload", "signed_url", "ocr">>)
          /\ (OcrRaised /\ ~mistralKey) =>
                /\ ocrErr = "MISTRAL_API_KEY not found in environment variables"
                /\ ocrCalls = <<>>
          /\ (OcrRaised /\ mistralKey /\ ~isFile) =>
                ocrErr = "PDF file not found" /\ ocrCalls = <<>>
          /\ (OcrRaised /\ mistralKey /\ isFile) =>
                ocrErr = "provider error" /\ ocrCalls # <<>>
          /\ pc = "latex_init" => ocrCalls = <<"upload", "signed_url", "ocr">>)
    /\ [][OcrRaised =>
            /\ pc' = "idle"
            /\ jobs'[cur.id].status = "failed"
            /\ jobs'[cur.id].error = Some(ocrErr)]_vars

\* C16 witness: the signed-URL request has raised after one upload, and no
\* OCR request is made.
C16_Witness ==
    /\ OcrRaised
    /\ ocrErr = "provider error"
    /\ ocrCalls = <<"upload", "signed_url">>

----------------------------------------------------------------------------
(* Claims about the repair parser *)

\* the strict JSON parse of the object the text was built from
Strict == JsonLoads(ObjectText(parser.body))

\* C17: for a text holding a fenced json block with a syntactically valid JSON
\* object, valid escapes in its strings included, the repair parser returns an
\* object equal in content to the strict JSON parse of the fenced body.
C17_ValidObjectUnchanged ==
    (parser.stage \in {"returned", "raised"} /\ parser.fenced /\ Strict.ok) =>
        parser.stage = "returned" /\ parser.result = Strict.value

----------------------------------------------------------------------------
(* Claims about the call counter and the rate gate *)

\* C18: the chunker's call counter is incremented by exactly 1 when the LLM call
\* of a page returns, whether or not the returned text is then decoded, and is
\* left as it was when the call itself raises.
C18_CounterOnReturn ==
    AfterCall =>
        count = IF callLog.raises THEN callLog.countBefore ELSE callLog.countBefore + 1

\* C18 witness: the second call of a pass returned a text that does not decode:
\* the page got the fallback chunk and the call was counted.
C18_Witness ==
    /\ AfterCall
    /\ ~callLog.raises /\ callLog.reply.top = "invalid"
    /\ callLog.countBefore = 1 /\ count = 2

\* the chunker is inside its page loop
InPass == pc \in {"gate", "call", "media"}

\* C19: during a chunking pass the call counter stays within 0..15, an LLM call
\* is issued only with the counter below 15, the counter and the window start
\* are reset only by the gate and only when the counter has reached 15, and a
\* wait at the gate lasts more than 0 and at most 60.
C19_CounterBounds ==
    /\ [](/\ InPass => count \in 0..MaxRequests
          /\ AfterCall => callLog.countBefore < MaxRequests
          /\ (InPass /\ gateLog.fired) =>
                /\ gateLog.oldCount = MaxRequests
                /\ gateLog.elapsed < Window => gateLog.slept \in 1..Window
                /\ gateLog.elapsed >= Window => gateLog.slept = 0)
    /\ [][(InPass /\ (count' < count \/ start' # start)) =>
            /\ pc = "gate" /\ count = MaxRequests
            /\ count' = 0 /\ start' = now']_vars

\* C19 witness: the gate has found 15 counted calls at the very start of the
\* window, has waited the full 60 and has reset the counter for the next call.
C19_Witness ==
    /\ pc = "call"
    /\ gateLog.fired /\ gateLog.elapsed = 0 /\ gateLog.slept = Window
    /\ count = 0 /\ start = now

----------------------------------------------------------------------------
(* Termination of the background tasks *)

\* no task is running or waiting, and every job of the store has ended
AllSettled ==
    /\ pc = "idle" /\ pending = EmptyBag
    /\ \A id \in DOMAIN jobs : jobs[id].status \in Terminal

\* C20: with the background tasks scheduled fairly and every provider call
\* returning or raising, every job created by POST /process reaches status
\* completed or failed: again and again the service is in a state in which no
\* task is left and every job of the store (ids are never removed) is
\* completed or failed.  The page loop visits each page once, in order, with at
\* most one LLM call per page, and a wait at the rate gate is at most 60.
C20_JobsTerminate ==
    /\ []<>AllSettled
    /\ [](/\ \A i, j \in 1..Len(issued) : i < j => issued[i].page < issued[j].page
          /\ gateLog.slept <= Window)
    /\ [][(InPass /\ pageIdx' # pageIdx) =>
            pc = "media" /\ pageIdx' = pageIdx + 1]_vars

\* C20 witness: every upload allowed has been made and every task has ended, one
\* job completed and another failed.
C20_Witness ==
    /\ AllSettled /\ uploadsLeft = 0
    /\ \E A, B \in DOMAIN jobs :
          jobs[A].status = "completed" /\ jobs[B].status = "failed"

----------------------------------------------------------------------------
(* Frame of the read-only handlers *)

\* this step returns a response of GET /status or of POST /chat
Answers == resp' # NoResp \/ chatResp' # NoChat

\* C21: GET /status/{job_id} and POST /chat leave the job store as it is for
\* every input and every outcome (success, 404, 500): no job entry is added,
\* removed or modified; and no step of the system removes a job id from the
\* store.
C21_HandlersReadOnly ==
    /\ [][Answers => jobs' = jobs]_vars
    /\ [][DOMAIN jobs \subseteq DOMAIN jobs']_vars

\* C21 witness: a chat on a completed job was answered with 500 and the job is
\* in the store with its result, beside a second job.
C21_Witness ==
    /\ chatResp.code = 500
    /\ chatResp.id \in DOMAIN jobs
    /\ jobs[chatResp.id].status = "completed" /\ jobs[chatResp.id].result # None
    /\ Cardinality(DOMAIN jobs) = 2

====
